---- MODULE Spec2Model ----
(***************************************************************************)
(* Model of package product: the productService submitter and its          *)
(* AddProduct operation (src/product/service_impl.go), together with the   *)
(* behaviour of the encoding/json and net/http calls it makes.             *)
(*                                                                         *)
(* A call of AddProduct is a sequence of steps (marshal, NewRequest,       *)
(* client.Do, status check, decode); several calls may run concurrently    *)
(* on one shared *productService.                                          *)
(***************************************************************************)
EXTENDS Integers, Sequences, FiniteSets, TLC

VARIABLES svc, calls, crashed

vars == <<svc, calls, crashed>>

----------------------------------------------------------------------------
(* Bounds of the model *)

\* longest text placed in a text field of an input Product
MaxLen == 1
\* most members in a JSON object the endpoint makes up itself
MaxMembers == 2
\* number of goroutines calling AddProduct on the shared submitter
NCallers == 2

----------------------------------------------------------------------------
(* Program constants *)

StatusOK == 200
StatusCreated == 201
MethodPost == "POST"

----------------------------------------------------------------------------
(* Go strings.  A string is a sequence of characters; "0xFF" stands for a  *)
(* byte that is not valid UTF-8, "U+FFFD" for the replacement rune.        *)

Chars == {"a", "\"", "0xFF", "U+FFFD"}
ValidChars == Chars \ {"0xFF"}

RECURSIVE SeqsUpTo(_, _)
SeqsUpTo(S, n) ==
    IF n = 0 THEN {<<>>}
    ELSE LET shorter == SeqsUpTo(S, n - 1)
         IN  shorter \cup {Append(s, x) : s \in shorter, x \in S}

Texts == SeqsUpTo(Chars, MaxLen)

ValidUTF8(s) == \A i \in 1..Len(s) : s[i] \in ValidChars

----------------------------------------------------------------------------
(* type Product *)

TextFields == {"title", "description", "brand", "category"}
FieldNames == TextFields \cup {"price"}
\* the struct's fields in declaration order, by JSON tag
FieldOrder == <<"title", "description", "price", "brand", "category">>

ZeroProduct ==
    [title |-> <<>>, description |-> <<>>, price |-> 0,
     brand |-> <<>>, category |-> <<>>]

Prices == {-7, 0, 1999}

\* the Product with text t in the fields fs and price n
Fill(t, fs, n) ==
    [f \in FieldNames |->
        IF f = "price" THEN n ELSE IF f \in fs THEN t ELSE <<>>]

\* Input Products: a text in one text field, or in all four with any price
InputProducts ==
    {Fill(t, {f}, 0) : t \in Texts, f \in TextFields}
    \cup {Fill(t, TextFields, n) : t \in Texts, n \in Prices}

ValidProduct(p) == \A f \in TextFields : ValidUTF8(p[f])

----------------------------------------------------------------------------
(* encoding/json: the JSON text of a value.                                *)
(* A string literal is the sequence of its source units (a literal         *)
(* character or an escape sequence), a number literal its sign and decimal *)
(* digits; a body is what the decoder's scanner sees: nothing, a value     *)
(* that is not an object, or an object's members in order, possibly cut    *)
(* off before the closing brace.                                           *)

JString(src) ==
    [t |-> "string", src |-> src, neg |-> FALSE, digits |-> <<>>, frac |-> FALSE]
JNumber(neg, digits, frac) ==
    [t |-> "number", src |-> <<>>, neg |-> neg, digits |-> digits, frac |-> frac]
JNull ==
    [t |-> "null", src |-> <<>>, neg |-> FALSE, digits |-> <<>>, frac |-> FALSE]

JObject(members) == [top |-> "object", members |-> members, complete |-> TRUE]
JTruncated(members) == [top |-> "object", members |-> members, complete |-> FALSE]
JTop(kind) == [top |-> kind, members |-> <<>>, complete |-> TRUE]
NoBody == JTop("none")

\* strconv: the decimal digits of n >= 0, most significant first
RECURSIVE Digits(_)
Digits(n) == IF n < 10 THEN <<n>> ELSE Append(Digits(n \div 10), n % 10)

RECURSIVE ParseDigits(_)
ParseDigits(ds) ==
    IF ds = <<>> THEN 0
    ELSE 10 * ParseDigits(SubSeq(ds, 1, Len(ds) - 1)) + ds[Len(ds)]

\* json.Marshal of an int
EncodeInt(n) == IF n < 0 THEN JNumber(TRUE, Digits(-n), FALSE)
                ELSE JNumber(FALSE, Digits(n), FALSE)

\* json.Marshal of one character of a string: the quote is escaped, a byte
\* that is not valid UTF-8 is written as the escape of U+FFFD
EncChar(ch) ==
    CASE ch = "\""   -> "\\\""
      [] ch = "0xFF" -> "\\ufffd"
      [] OTHER       -> ch

EncodeString(s) == JString([i \in 1..Len(s) |-> EncChar(s[i])])

\* the decoder's unquote of one source unit
DecUnit(u) ==
    CASE u = "\\\""   -> "\""
      [] u = "\\ufffd" -> "U+FFFD"
      [] u = "0xFF"    -> "U+FFFD"
      [] OTHER         -> u

DecodeString(v) == [i \in 1..Len(v.src) |-> DecUnit(v.src[i])]

DecodeInt(v) == IF v.neg THEN 0 - ParseDigits(v.digits) ELSE ParseDigits(v.digits)

\* as if the tags of Brand and Category were swapped
MarshalProduct_SwappedTags(p) ==
    LET tag(f) == CASE f = "brand" -> "category"
                    [] f = "category" -> "brand"
                    [] OTHER -> f
    IN  JObject([i \in 1..Len(FieldOrder) |->
            [key |-> tag(FieldOrder[i]),
             val |-> IF FieldOrder[i] = "price" THEN EncodeInt(p.price)
                     ELSE EncodeString(p[FieldOrder[i]])]])

\* as if the struct tags said omitempty: a zero field is left out
MarshalProduct_OmitEmpty(p) ==
    LET keep == SelectSeq(FieldOrder, LAMBDA f : p[f] # ZeroProduct[f]) IN
    JObject([i \in 1..Len(keep) |->
        [key |-> keep[i],
         val |-> IF keep[i] = "price" THEN EncodeInt(p.price)
                 ELSE EncodeString(p[keep[i]])]])

\* json.Marshal(p): every field, in declaration order, under its tag
MarshalProduct(p) ==
    JObject([i \in 1..Len(FieldOrder) |->
        [key |-> FieldOrder[i],
         val |-> IF FieldOrder[i] = "price" THEN EncodeInt(p.price)
                 ELSE EncodeString(p[FieldOrder[i]])]])

\* the decoder matches an object key to a field by its tag, exactly or
\* ignoring letter case
Lower(k) ==
    CASE k = "TITLE" -> "title"
      [] k = "Price" -> "price"
      [] OTHER       -> k

FieldFor(key) == IF Lower(key) \in FieldNames THEN Lower(key) ELSE "none"

\* one member of an object decoded into the struct acc; the first error is kept
DecodeMember(m, acc) ==
    LET f == FieldFor(m.key) IN
    IF f = "none" \/ m.val.t = "null" THEN acc
    ELSE IF f = "price" THEN
        IF m.val.t = "number" /\ ~m.val.frac
        THEN [acc EXCEPT !.result.price = DecodeInt(m.val)]
        ELSE [acc EXCEPT !.cause = IF @ = "" THEN "cannot unmarshal into int" ELSE @]
    ELSE
        IF m.val.t = "string"
        THEN [acc EXCEPT !.result[f] = DecodeString(m.val)]
        ELSE [acc EXCEPT !.cause = IF @ = "" THEN "cannot unmarshal into string" ELSE @]

RECURSIVE DecodeMembers(_, _, _)
DecodeMembers(members, i, acc) ==
    IF i > Len(members) THEN acc
    ELSE DecodeMembers(members, i + 1, DecodeMember(members[i], acc))

\* json.NewDecoder(body).Decode(&result) with result the zero Product:
\* the value is scanned whole before anything is stored
DecodeBody(body, result) ==
    IF body.top = "empty" THEN [result |-> result, cause |-> "EOF"]
    ELSE IF ~body.complete THEN [result |-> result, cause |-> "unexpected EOF"]
    ELSE IF body.top = "null" THEN [result |-> result, cause |-> ""]
    ELSE IF body.top = "object"
         THEN DecodeMembers(body.members, 1, [result |-> result, cause |-> ""])
    ELSE [result |-> result, cause |-> "cannot unmarshal into Product"]

----------------------------------------------------------------------------
(* The endpoint: what a server may answer to a request.                    *)

\* members a server puts into an object of its own making
MemberPool ==
    {[key |-> "title", val |-> JString(<<"b">>)],
     [key |-> "TITLE", val |-> JString(<<"c">>)],
     [key |-> "title", val |-> JNull],
     [key |-> "price", val |-> EncodeInt(2099)],
     [key |-> "price", val |-> JString(<<"b">>)],
     [key |-> "id",    val |-> EncodeInt(101)]}

ServerBodies ==
    {JObject(ms) : ms \in SeqsUpTo(MemberPool, MaxMembers)}
    \cup {JTruncated(ms) : ms \in SeqsUpTo(MemberPool, 1)}
    \cup {JTop("empty"), JTop("null"), JTop("array")}

Statuses == {101, StatusOK, StatusCreated, 204, 302, 400, 500}

\* the handler of the test server that stores the product and reprices it
SetPriceBody(body) ==
    MarshalProduct([DecodeBody(body, ZeroProduct).result EXCEPT !.price = 2099])

\* the answers to request req of servers that echo the request body, reprice
\* it, or send one of the bodies B, each with any status of S
Responses(req, S, B) ==
    {[status |-> s, body |-> b] :
        s \in S, b \in B \cup {req.body, SetPriceBody(req.body)}}

\* inputs and answers of the concurrent runs
ConcProducts ==
    {[ZeroProduct EXCEPT !.title = <<"a">>, !.price = 1999],
     [ZeroProduct EXCEPT !.brand = <<"\"">>, !.price = -7]}
ConcStatuses == {StatusCreated, 400}
ConcBodies == {JObject(<<[key |-> "title", val |-> JString(<<"b">>)]>>),
               JTruncated(<<>>)}

----------------------------------------------------------------------------
(* type productService, and the state of one call of AddProduct            *)

Callers == 1..NCallers

\* a URL as the pieces of its text; "\n" is a control character
ValidAPIURL == <<"http://", "example.com">>
InvalidAPIURL == <<"http://", "\n">>
APIURLs == {ValidAPIURL, InvalidAPIURL}

\* as if the error of http.NewRequest were dropped
ValidURL_Unchecked(u) == TRUE

\* url.Parse, called by http.NewRequest, rejects a control character
ValidURL(u) == \A i \in 1..Len(u) : u[i] # "\n"

NoReq == [method |-> "", url |-> <<>>, contentType |-> "", body |-> NoBody]
NoResp == [status |-> 0, body |-> NoBody]
NilErr == [prefix |-> "", code |-> <<>>, cause |-> ""]

\* fmt.Errorf("<prefix>: %w", err)
Wrap(prefix, cause) == [prefix |-> prefix, code |-> <<>>, cause |-> cause]
\* fmt.Errorf("unexpected status code: %d", code)
StatusErr(code) ==
    [prefix |-> "unexpected status code", code |-> Digits(code), cause |-> ""]

\* as if every 2xx status were accepted
IsSuccessStatus_Any2xx(code) == code \div 100 = 2

\* as if only 200 were accepted
IsSuccessStatus_OnlyOK(code) == code = StatusOK

\* resp.StatusCode != http.StatusOK && resp.StatusCode != http.StatusCreated
IsSuccessStatus(code) == code = StatusOK \/ code = StatusCreated

IdleCall ==
    [pc |-> "idle", p |-> ZeroProduct, body |-> NoBody, req |-> NoReq,
     resp |-> NoResp, result |-> ZeroProduct, ret |-> ZeroProduct,
     err |-> NilErr, steps |-> <<>>, sent |-> <<>>, closes |-> 0, reads |-> 0]

\* return product, err
Return(call, product, err) ==
    [call EXCEPT !.pc = "returned", !.ret = product, !.err = err]

\* NewProductService(apiURL, client), with the marshal field as a test may
\* have replaced it
Init ==
    /\ svc \in [apiURL : APIURLs, client : {"nil", "client"},
                marshal : {"DefaultMarshal", "failing"}]
    /\ calls = [c \in Callers |-> IdleCall]
    /\ crashed = FALSE

\* a caller enters AddProduct(p)
Call(c, P) ==
    /\ ~crashed
    /\ calls[c].pc = "idle"
    /\ \E p \in P : calls' = [calls EXCEPT ![c].pc = "start", ![c].p = p]
    /\ UNCHANGED <<svc, crashed>>

\* body, err := json.Marshal(p)
Marshal(c) ==
    /\ ~crashed
    /\ calls[c].pc = "start"
    /\ calls' = [calls EXCEPT ![c].pc = "marshalled",
                              ![c].body = MarshalProduct(calls[c].p),
                              ![c].steps = Append(@, "marshal")]
    /\ UNCHANGED <<svc, crashed>>

\* as if the marshalled body were kept in one buffer of the submitter
RequestBody_Shared(c) == calls[1].body

\* the body the request is built from: the call's own local
RequestBody(c) == calls[c].body

\* req, err := http.NewRequest(...); req.Header.Set("Content-Type", ...)
NewRequest(c) ==
    /\ ~crashed
    /\ calls[c].pc = "marshalled"
    /\ LET call == [calls[c] EXCEPT !.steps = Append(@, "request")] IN
       IF ValidURL(svc.apiURL)
       THEN calls' = [calls EXCEPT ![c] =
                [call EXCEPT !.pc = "built",
                             !.req = [method |-> MethodPost, url |-> svc.apiURL,
                                      contentType |-> "application/json",
                                      body |-> RequestBody(c)]]]
       ELSE calls' = [calls EXCEPT ![c] =
                Return(call, ZeroProduct,
                       Wrap("failed to create request", "invalid control character in URL"))]
    /\ UNCHANGED <<svc, crashed>>

\* resp, err := s.client.Do(req): a nil client panics, which ends the
\* process; otherwise the transport fails or a server answers
Do(c, S, B) ==
    /\ ~crashed
    /\ calls[c].pc = "built"
    /\ LET call == [calls[c] EXCEPT !.steps = Append(@, "do")] IN
       IF svc.client = "nil"
       THEN /\ calls' = [calls EXCEPT ![c] = [call EXCEPT !.pc = "panicked"]]
            /\ crashed' = TRUE
       ELSE /\ \/ calls' = [calls EXCEPT ![c] =
                    Return([call EXCEPT !.sent = Append(@, call.req)], ZeroProduct,
                           Wrap("failed to send request", "network error"))]
               \/ \E r \in Responses(calls[c].req, S, B) :
                    calls' = [calls EXCEPT ![c] =
                        [call EXCEPT !.pc = "responded", !.resp = r,
                                     !.sent = Append(@, call.req)]]
            /\ crashed' = crashed
    /\ UNCHANGED svc

\* as if the defer were missing
DeferredClose_Missing(call) == call

\* defer resp.Body.Close(), run when the call returns
DeferredClose(call) == [call EXCEPT !.closes = @ + 1]

\* if resp.StatusCode != 200 && != 201 { return Product{}, ... }
CheckStatus(c) ==
    /\ ~crashed
    /\ calls[c].pc = "responded"
    /\ LET call == [calls[c] EXCEPT !.steps = Append(@, "status")] IN
       IF IsSuccessStatus(call.resp.status)
       THEN calls' = [calls EXCEPT ![c] = [call EXCEPT !.pc = "accepted"]]
       ELSE calls' = [calls EXCEPT ![c] =
                DeferredClose(Return(call, ZeroProduct, StatusErr(call.resp.status)))]
    /\ UNCHANGED <<svc, crashed>>

\* as if the input were decoded into
DecodeTarget_Input(p) == p

\* var result Product
DecodeTarget(p) == ZeroProduct

\* as if the partly decoded result were returned with the error
DecodeFailureProduct_Partial(result) == result

\* the Product returned beside a decode error
DecodeFailureProduct(result) == ZeroProduct

\* json.NewDecoder(resp.Body).Decode(&result), and the two returns after it
Decode(c) ==
    /\ ~crashed
    /\ calls[c].pc = "accepted"
    /\ LET d == DecodeBody(calls[c].resp.body, DecodeTarget(calls[c].p))
           call == [calls[c] EXCEPT !.steps = Append(@, "decode"),
                                    !.reads = @ + 1, !.result = d.result]
       IN  IF d.cause # ""
           THEN calls' = [calls EXCEPT ![c] =
                    DeferredClose(Return(call, DecodeFailureProduct(d.result),
                                         Wrap("failed to decode response", d.cause)))]
           ELSE calls' = [calls EXCEPT ![c] =
                    DeferredClose(Return(call, d.result, NilErr))]
    /\ UNCHANGED <<svc, crashed>>

\* one caller
Next ==
    \/ Call(1, InputProducts)
    \/ Marshal(1)
    \/ NewRequest(1)
    \/ Do(1, Statuses, ServerBodies)
    \/ CheckStatus(1)
    \/ Decode(1)

Spec == Init /\ [][Next]_vars

\* NCallers callers sharing the submitter
NextConc ==
    \E c \in Callers :
        \/ Call(c, ConcProducts)
        \/ Marshal(c)
        \/ NewRequest(c)
        \/ Do(c, ConcStatuses, ConcBodies)
        \/ CheckStatus(c)
        \/ Decode(c)

SpecConc == Init /\ [][NextConc]_vars

----------------------------------------------------------------------------
(* Properties *)

Returned(c) == calls[c].pc = "returned"
GotResponse(c) == calls[c].resp # NoResp
Failed(c) == calls[c].err # NilErr

\* C1: a call that got a response succeeds only on status 200 or 201; on
\* any other status it returns an error whose message carries that status
\* code in decimal, whatever the body is, and the body is never decoded.
C1_OnlyOkOrCreatedSucceeds ==
    \A c \in Callers :
        Returned(c) /\ GotResponse(c) =>
            LET call == calls[c] IN
            /\ ~Failed(c) => call.resp.status \in {200, 201}
            /\ call.resp.status \notin {200, 201} =>
                /\ call.err.prefix = "unexpected status code"
                /\ call.err.code # <<>>
                /\ ParseDigits(call.err.code) = call.resp.status
                /\ call.reads = 0

\* a 204 answer whose body is the JSON of a Product was rejected with "204"
C1_Witness ==
    \E c \in Callers :
        /\ Returned(c)
        /\ calls[c].resp.status = 204
        /\ calls[c].resp.body = MarshalProduct(Fill(<<"a">>, TextFields, 1999))
        /\ calls[c].err.code = <<2, 0, 4>>

\* C2: every return is (a Product, nil) or (the zero Product, an error of
\* one of the five kinds), also when the decoder had filled fields of the
\* result before it reported the error.
C2_ZeroProductOnError ==
    \A c \in Callers :
        Returned(c) /\ Failed(c) =>
            /\ calls[c].ret = ZeroProduct
            /\ calls[c].err.prefix \in
                 {"failed to marshal product", "failed to create request",
                  "failed to send request", "unexpected status code",
                  "failed to decode response"}

\* a decode error after the decoder had stored a title
C2_Witness ==
    \E c \in Callers :
        /\ Returned(c)
        /\ calls[c].err.prefix = "failed to decode response"
        /\ calls[c].result.title = <<"b">>
        /\ calls[c].ret = ZeroProduct

\* the call was answered 201 with exactly the body it sent
Echoed(c) ==
    /\ Returned(c)
    /\ calls[c].resp.status = 201
    /\ calls[c].sent # <<>>
    /\ calls[c].resp.body = calls[c].sent[1].body

\* C3 as stated: for every Product p, an endpoint that answers 201 with
\* the exact request body makes AddProduct(p) return (p, nil).
C3_RoundTripEveryProduct ==
    \A c \in Callers :
        Echoed(c) => calls[c].ret = calls[c].p /\ ~Failed(c)

\* C3 amended: the round trip holds for every Product whose text fields
\* are valid UTF-8.
C3_RoundTripValidText ==
    \A c \in Callers :
        Echoed(c) /\ ValidProduct(calls[c].p) =>
            calls[c].ret = calls[c].p /\ ~Failed(c)

\* a Product with quotes in every text field and a negative price came back
C3_Witness ==
    \E c \in Callers :
        /\ Echoed(c)
        /\ calls[c].p = Fill(<<"\"">>, TextFields, -7)
        /\ calls[c].ret = calls[c].p

Max(S) == CHOOSE x \in S : \A y \in S : y <= x

\* the field's value in member m
ValueOf(m, f) == IF f = "price" THEN DecodeInt(m.val) ELSE DecodeString(m.val)

\* the members of the body that are not null and whose key is f
ExactMembers(body, f) ==
    {i \in 1..Len(body.members) :
        body.members[i].key = f /\ body.members[i].val.t # "null"}

\* ... whose key is f up to letter case
FoldedMembers(body, f) ==
    {i \in 1..Len(body.members) :
        Lower(body.members[i].key) = f /\ body.members[i].val.t # "null"}

\* C4 as stated: on success each field is the value under its key in the
\* response object, other keys are ignored, and a field whose key is
\* absent is zero.
C4_FieldsFromTheirKeys ==
    \A c \in Callers :
        Returned(c) /\ ~Failed(c) =>
            \A f \in FieldNames :
                LET ms == ExactMembers(calls[c].resp.body, f) IN
                calls[c].ret[f] =
                    IF ms = {} THEN ZeroProduct[f]
                    ELSE ValueOf(calls[c].resp.body.members[Max(ms)], f)

\* C4 amended: on success the Product is a function of the response body
\* alone; each field is the value of the last member that is not null and
\* whose key is the field's name up to letter case, and zero without one.
C4_FieldsFromFoldedKeys ==
    \A c \in Callers :
        Returned(c) /\ ~Failed(c) =>
            \A f \in FieldNames :
                LET ms == FoldedMembers(calls[c].resp.body, f) IN
                calls[c].ret[f] =
                    IF ms = {} THEN ZeroProduct[f]
                    ELSE ValueOf(calls[c].resp.body.members[Max(ms)], f)

\* an answer with only a price and an unknown key, to an input with texts
C4_Witness ==
    \E c \in Callers :
        /\ Returned(c) /\ ~Failed(c)
        /\ calls[c].p = Fill(<<"a">>, TextFields, 1999)
        /\ calls[c].resp.body =
             JObject(<<[key |-> "price", val |-> EncodeInt(2099)],
                       [key |-> "id", val |-> EncodeInt(101)]>>)
        /\ calls[c].ret = [ZeroProduct EXCEPT !.price = 2099]

\* C5: once a response was obtained its body is closed exactly once by
\* the time the call returns, on every exit path; a call that ends
\* without a response closes and reads no body.
C5_BodyClosedOnce ==
    \A c \in Callers :
        LET call == calls[c] IN
        /\ call.closes =
             IF Returned(c) /\ GotResponse(c) THEN 1 ELSE 0
        /\ ~GotResponse(c) => call.reads = 0

\* a rejected answer whose body was closed
C5_Witness ==
    \E c \in Callers :
        /\ Returned(c)
        /\ calls[c].resp.status = 500
        /\ calls[c].err.prefix = "unexpected status code"
        /\ calls[c].closes = 1

\* C6: with the marshal field replaced by a failing function, AddProduct
\* fails with "failed to marshal product", returns the zero Product and
\* sends no request.
C6_FailingMarshalFailsTheCall ==
    \A c \in Callers :
        svc.marshal = "failing" /\ calls[c].pc \notin {"idle", "start"} =>
            /\ Returned(c)
            /\ calls[c].err.prefix = "failed to marshal product"
            /\ calls[c].ret = ZeroProduct
            /\ calls[c].sent = <<>>

StepOrder == <<"marshal", "request", "do", "status", "decode">>

PrefixOfStep(step) ==
    CASE step = "marshal" -> "failed to marshal product"
      [] step = "request" -> "failed to create request"
      [] step = "do"      -> "failed to send request"
      [] step = "status"  -> "unexpected status code"
      [] step = "decode"  -> "failed to decode response"

\* C7: the five steps run in their order, each at most once; the first
\* that fails ends the call with the error of that step; the client is
\* invoked at most once, and not at all when the URL is invalid.
C7_StepsInOrder ==
    \A c \in Callers :
        LET call == calls[c] IN
        /\ Len(call.steps) <= Len(StepOrder)
        /\ call.steps = SubSeq(StepOrder, 1, Len(call.steps))
        /\ Len(call.sent) <= 1
        /\ Returned(c) /\ Failed(c) =>
             call.err.prefix = PrefixOfStep(call.steps[Len(call.steps)])
        /\ Returned(c) /\ ~Failed(c) => call.steps = StepOrder
        /\ svc.apiURL = InvalidAPIURL /\ call.pc \notin {"idle", "start", "marshalled"} =>
             /\ Returned(c)
             /\ call.err.prefix = "failed to create request"
             /\ call.sent = <<>>

\* an invalid URL ended the call at the second step
C7_Witness ==
    \E c \in Callers :
        /\ Returned(c)
        /\ svc.apiURL = InvalidAPIURL
        /\ calls[c].steps = <<"marshal", "request">>
        /\ calls[c].err.prefix = "failed to create request"

\* request r is a POST to the configured URL with the JSON content type
\* and an object with the five keys whose values decode to those of q
Carries(r, q) ==
    /\ r.method = "POST"
    /\ r.url = svc.apiURL
    /\ r.contentType = "application/json"
    /\ r.body.top = "object" /\ r.body.complete
    /\ Len(r.body.members) = 5
    /\ \A i \in 1..5 :
         LET m == r.body.members[i] IN
         /\ m.key = FieldOrder[i]
         /\ m.val.t = IF m.key = "price" THEN "number" ELSE "string"
         /\ ValueOf(m, m.key) = q[m.key]

\* encoding/json's coercion of a string to valid UTF-8
ToValidUTF8(s) == [i \in 1..Len(s) |-> IF s[i] = "0xFF" THEN "U+FFFD" ELSE s[i]]

Coerced(p) == [f \in FieldNames |-> IF f = "price" THEN p.price ELSE ToValidUTF8(p[f])]

\* C8 as stated: every request handed to the client is a POST to the
\* configured URL with Content-Type application/json and all five keys
\* carrying the input's values unaltered.
C8_RequestCarriesInput ==
    \A c \in Callers :
        \A i \in 1..Len(calls[c].sent) : Carries(calls[c].sent[i], calls[c].p)

\* C8 amended: ... carrying the input's values, each byte of a text that
\* is not valid UTF-8 replaced by U+FFFD.
C8_RequestCarriesCoercedInput ==
    \A c \in Callers :
        \A i \in 1..Len(calls[c].sent) :
            Carries(calls[c].sent[i], Coerced(calls[c].p))

\* empty texts and a negative price were sent under all five keys
C8_Witness ==
    \E c \in Callers :
        /\ calls[c].sent # <<>>
        /\ calls[c].p = Fill(<<>>, TextFields, -7)
        /\ Len(calls[c].sent[1].body.members) = 5

\* what the call returns when it runs alone with its input and the
\* answer given to its own request
AloneOutcome(c) ==
    LET call == calls[c]
        d == DecodeBody(call.resp.body, ZeroProduct)
    IN  IF svc.apiURL = InvalidAPIURL
        THEN [ret |-> ZeroProduct, prefix |-> "failed to create request"]
        ELSE IF ~GotResponse(c)
        THEN [ret |-> ZeroProduct, prefix |-> "failed to send request"]
        ELSE IF call.resp.status \notin {200, 201}
        THEN [ret |-> ZeroProduct, prefix |-> "unexpected status code"]
        ELSE IF d.cause # ""
        THEN [ret |-> ZeroProduct, prefix |-> "failed to decode response"]
        ELSE [ret |-> d.result, prefix |-> ""]

Isolated ==
    \A c \in Callers :
        /\ Returned(c) =>
             [ret |-> calls[c].ret, prefix |-> calls[c].err.prefix] = AloneOutcome(c)
        /\ \A i \in 1..Len(calls[c].sent) :
             calls[c].sent[i].body = MarshalProduct(calls[c].p)

\* C9: under every interleaving of concurrent calls on one submitter each
\* call returns what it returns alone for its input and its own answer,
\* sends its own body, and no step writes the submitter's fields.
C9_ConcurrentCallsIsolated == [][svc' = svc]_vars /\ []Isolated

\* one call has returned its echoed input while another, with another
\* input, is between its answer and its return
C9_Witness ==
    \E c, d \in Callers :
        /\ c # d
        /\ Returned(c) /\ ~Failed(c)
        /\ calls[c].ret = calls[c].p
        /\ calls[d].pc = "accepted"
        /\ calls[d].p # calls[c].p
        /\ calls[d].resp.body = calls[d].sent[1].body

\* C10: every call on a submitter NewProductService returned, also one
\* built with a nil client, ends by returning; a configuration that cannot
\* deliver is the zero Product with an error, never a crash.
C10_NilClientIsAnError ==
    \A c \in Callers :
        /\ calls[c].pc # "panicked"
        /\ svc.client = "nil" /\ Returned(c) =>
             Failed(c) /\ calls[c].ret = ZeroProduct

====
